---------------------------- MODULE Spec2Model ----------------------------
(***************************************************************************)
(* Model of thermal-monitor-gui: the bounded temperature history           *)
(* (app.rs, TemperatureHistory), the control policy (system.rs,            *)
(* calc_perf_for_target / apply_thermal_control / set_perf_pct /           *)
(* set_fan_boost) and the application controller (app.rs, ThermalApp).     *)
(*                                                                         *)
(* Units.  A temperature is held as an integer number of millidegrees      *)
(* Celsius, the unit of the sysfs sensors (system.rs:132-133); the target  *)
(* temperature is a whole number of degrees (slider step 1.0,              *)
(* app.rs:285-287) and is held in millidegrees too.  The comparisons of    *)
(* apply_thermal_control are made on diff = current - target; for a        *)
(* current of the form fl(mC / 1000) and a whole-degree target the f32     *)
(* subtraction is exact and the thresholds 10.0, 5.0, 0.0, -5.0 are whole  *)
(* degrees, so the f32 comparison and the comparison of millidegrees       *)
(* agree.  The quotient and the products of calc_perf_for_target are NOT   *)
(* exact in f32: they are computed below with IEEE-754 single precision    *)
(* rounding (round to nearest, ties to even), as the code computes them.   *)
(***************************************************************************)
EXTENDS Integers, Sequences, FiniteSets, TLC

Min(a, b) == IF a <= b THEN a ELSE b
Max(a, b) == IF a >= b THEN a ELSE b

RECURSIVE Pow2(_)
Pow2(n) == IF n <= 0 THEN 1 ELSE 2 * Pow2(n - 1)

(***************************************************************************)
(* IEEE-754 binary32, positive normal numbers only.  A value is a record   *)
(* [m, e] standing for m * 2^e with 2^23 <= m < 2^24.                      *)
(***************************************************************************)
F32MantBits == 24
F32Lo == Pow2(F32MantBits - 1)
F32Hi == Pow2(F32MantBits)

\* n as f32, for an integer 0 < n < 2^24 (exact): shift left until normal.
RECURSIVE F32Norm(_, _)
F32Norm(m, e) == IF m >= F32Lo THEN [m |-> m, e |-> e] ELSE F32Norm(2 * m, e - 1)

F32FromInt(n) == F32Norm(n, 0)

\* Restoring long division: n further quotient bits of r / b, r < b.
RECURSIVE LongDiv(_, _, _, _)
LongDiv(q, r, b, n) ==
    IF n = 0 THEN [q |-> q, r |-> r]
    ELSE IF 2 * r >= b THEN LongDiv(2 * q + 1, 2 * r - b, b, n - 1)
                       ELSE LongDiv(2 * q, 2 * r, b, n - 1)

\* x / y in f32: the quotient of the mantissas to 24 significant bits, then
\* round to nearest, ties to even.
F32Div(x, y) ==
    LET ge == x.m >= y.m
        d  == IF ge THEN LongDiv(1, x.m - y.m, y.m, F32MantBits - 1)
                    ELSE LongDiv(0, x.m, y.m, F32MantBits)
        e0 == x.e - y.e - (IF ge THEN F32MantBits - 1 ELSE F32MantBits)
        up == 2 * d.r > y.m \/ (2 * d.r = y.m /\ d.q % 2 = 1)
        q  == IF up THEN d.q + 1 ELSE d.q
    IN  IF q = F32Hi THEN [m |-> F32Lo, e |-> e0 + 1] ELSE [m |-> q, e |-> e0]

\* Number of bits of n > 0.
RECURSIVE BitLen(_)
BitLen(n) == IF n = 0 THEN 0 ELSE 1 + BitLen(n \div 2)

(***************************************************************************)
(* (p as f32 * x) as u8 for a u8 p and a positive f32 x = m * 2^e with     *)
(* e <= -12: the product p * m (up to 32 bits) is kept in two limbs        *)
(* A * 2^12 + B, rounded to 24 significant bits (ties to even), and the    *)
(* result truncated toward zero.  The cast saturates at 255.               *)
(***************************************************************************)
Limb == Pow2(12)

F32MulTrunc(p, x) ==
    LET hi   == x.m \div Limb
        lo   == x.m % Limb
        A    == p * hi + ((p * lo) \div Limb)
        B    == (p * lo) % Limb
        s    == Max(BitLen(A) + 12 - F32MantBits, 0)   \* bits dropped by the rounding
        unit == Pow2(s)
        low  == B % unit
        odd  == (B \div unit) % 2 = 1
        up   == s > 0 /\ (2 * low > unit \/ (2 * low = unit /\ odd))
        B1   == B - low + (IF up THEN unit ELSE 0)
        A1   == IF B1 >= Limb THEN A + 1 ELSE A
        sh   == (0 - x.e) - 12
        n    == IF sh > 30 THEN 0 ELSE A1 \div Pow2(sh)
    IN  IF p = 0 THEN 0 ELSE IF sh < 0 THEN 255 ELSE Min(n, 255)

\* A sensor value of mC millidegrees as the f32 the code holds: mC as f32 / 1000.0
\* (system.rs:133); a whole-degree target is represented exactly.
MilliPerDegree == 1000

TempF32(mC) == F32Div(F32FromInt(mC), F32FromInt(MilliPerDegree))

\* The f32 literal 1.1 (system.rs:282): the f32 nearest to 11/10.
F32_1_1 == F32Div(F32FromInt(11), F32FromInt(10))

clamp(x, lo, hi) == IF x < lo THEN lo ELSE IF x > hi THEN hi ELSE x

Abs(x) == IF x < 0 THEN 0 - x ELSE x

(***************************************************************************)
(* calc_perf_for_target (system.rs:279-288).  Temperatures in millidegrees.*)
(* Below or at target: (current_perf as f32 * 1.1).min(100.0) as u8.       *)
(* Above target: ((current_perf as f32 * (target / current)) as u8)        *)
(*               .clamp(20, 100).                                          *)
(* A product that is negative, -inf or NaN (target <= 0 or current = 0)    *)
(* casts to 0.                                                             *)
(***************************************************************************)
\* calc_perf_for_target with the quotient of its second branch inverted
\* (current / target for target / current).
calc_perf_ratio_inverted(current_temp, target, current_perf) ==
    IF current_temp <= target
    THEN Min(F32MulTrunc(current_perf, F32_1_1), 100)
    ELSE LET prod == IF current_temp = 0 \/ target = 0
                        \/ (current_temp > 0 /\ target < 0)
                     THEN 0
                     ELSE F32MulTrunc(current_perf,
                              F32Div(TempF32(Abs(current_temp)), TempF32(Abs(target))))
         IN  clamp(prod, 20, 100)

calc_perf_for_target(current_temp, target, current_perf) ==
    IF current_temp <= target
    THEN Min(F32MulTrunc(current_perf, F32_1_1), 100)
    ELSE LET prod == IF current_temp = 0 \/ target = 0
                        \/ (current_temp > 0 /\ target < 0)
                     THEN 0
                     ELSE F32MulTrunc(current_perf,
                              F32Div(TempF32(Abs(target)), TempF32(Abs(current_temp))))
         IN  clamp(prod, 20, 100)

----------------------------------------------------------------------------
(***************************************************************************)
(* State.                                                                  *)
(***************************************************************************)
VARIABLES
    history,          \* ThermalApp.history: [cpu_temps, kbd_temps, capacity]
    pushed,           \* ghost: every (cpu, kbd) pair pushed since construction
    state,            \* ThermalApp.state: the last ThermalState snapshot
    status_message,   \* Option<(String, Instant)>: <<>> or <<message>>
    target_temp,      \* millidegrees
    auto_control,
    fan_boost_manual,
    sys_perf,         \* what read_perf_pct finds in max_perf_pct: Fail or <<u8>>
    sys_fan,          \* what read_fan_mode finds in fan_mode: Fail or <<u8>>
    ev,               \* ghost: the last handler run and what it requested
    crashed,          \* the process aborted (overflow panic)
    updates,          \* number of update_state calls so far
    calc_in,          \* arguments of a call of calc_perf_for_target
    calc_out,         \* <<>> or <<its return value>>
    ctl_in,           \* arguments and environment of a call of apply_thermal_control
    ctl_out,          \* <<>> or <<what the call did and returned>>
    read_in,          \* outcomes of the sensor reads of a call of ThermalState::read
    read_out,         \* <<>> or <<the snapshot returned>>
    mode_in,          \* content of the mode status file for a call of read_mode
    mode_out,         \* <<>> or <<the Mode returned>>
    zone_in,          \* temperatures given to ThermalZone::from_cpu_temp
    zone_out          \* <<>> or <<the zones returned>>

vars == <<history, pushed, state, status_message, target_temp, auto_control,
          fan_boost_manual, sys_perf, sys_fan, ev, crashed, updates,
          calc_in, calc_out, ctl_in, ctl_out,
          read_in, read_out, mode_in, mode_out, zone_in, zone_out>>

appVars == <<state, status_message, target_temp, auto_control, fan_boost_manual,
             sys_perf, sys_fan, ev, crashed, updates>>

histVars == <<history, pushed>>

pureVars == <<read_in, read_out, mode_in, mode_out, zone_in, zone_out>>

callVars == <<calc_in, calc_out, ctl_in, ctl_out, pureVars>>

(***************************************************************************)
(* Bounds of the model.                                                    *)
(***************************************************************************)
MaxCap == 3         \* capacities 0..MaxCap of a stand-alone TemperatureHistory
MaxPushes == 5      \* pushes made on a stand-alone TemperatureHistory
MaxUpdates == 2     \* update_state calls in a run of the application
MaxTokens == 3      \* words in the content of the mode status file
MaxFanTicks == 3    \* automatic ticks in a run of the fan model

\* The outcome of a read (io::Result<T> / Option<T>): Fail, or <<v>> for Ok(v).
Fail == <<>>

Val(v) == <<v>>

unwrap_or(r, dflt) == IF r = Fail THEN dflt ELSE r[1]

----------------------------------------------------------------------------
(***************************************************************************)
(* TemperatureHistory (app.rs:21-80).                                      *)
(***************************************************************************)
HISTORY_CAPACITY == 60

new(capacity) == [cpu_temps |-> <<>>, kbd_temps |-> <<>>, capacity |-> capacity]

\* VecDeque::pop_front: removes the first element if there is one.
pop_front(q) == IF q = <<>> THEN q ELSE Tail(q)

\* push with the eviction at the wrong end (pop_back for pop_front).
push_evicts_newest(h, cpu, kbd) ==
    LET full == Len(h.cpu_temps) >= h.capacity
        drop(q) == IF q = <<>> THEN q ELSE SubSeq(q, 1, Len(q) - 1)
        c1   == IF full THEN drop(h.cpu_temps) ELSE h.cpu_temps
        k1   == IF full THEN drop(h.kbd_temps) ELSE h.kbd_temps
    IN  [h EXCEPT !.cpu_temps = Append(c1, cpu), !.kbd_temps = Append(k1, kbd)]

push(h, cpu, kbd) ==
    LET full == Len(h.cpu_temps) >= h.capacity
        c1   == IF full THEN pop_front(h.cpu_temps) ELSE h.cpu_temps
        k1   == IF full THEN pop_front(h.kbd_temps) ELSE h.kbd_temps
    IN  [h EXCEPT !.cpu_temps = Append(c1, cpu), !.kbd_temps = Append(k1, kbd)]

len(h) == Len(h.cpu_temps)

is_empty(h) == h.cpu_temps = <<>>

----------------------------------------------------------------------------
(***************************************************************************)
(* Messages and results.  A String is the record [text, pct, arg]: a fixed *)
(* text, the number a format!("... {}%", n) puts into it (NoPct: none) and *)
(* the string a format!("... {}", s) puts into it.  An io::Result<String>  *)
(* is [ok, msg]; an Option is the empty or the one-element sequence.       *)
(***************************************************************************)
NoPct == 0 - 1

Msg(text) == [text |-> text, pct |-> NoPct, arg |-> ""]

MsgPct(text, n) == [text |-> text, pct |-> n, arg |-> ""]

\* format!("{} {}", prefix, e) for an error e
MsgErr(prefix, e) == [text |-> prefix, pct |-> NoPct, arg |-> e.msg.text]

Ok(m) == [ok |-> TRUE, msg |-> m]

Err(text) == [ok |-> FALSE, msg |-> Msg(text)]

None == <<>>

Some(x) == <<x>>

U8Max == 255

(***************************************************************************)
(* Actuation gateway.  `succeeds` is the outcome of the pkexec command.    *)
(* Each call returns the request it issued (kind, the argument passed, the *)
(* value written into the shell command) and its io::Result.               *)
(***************************************************************************)
\* set_fan_boost (system.rs:240-254)
set_fan_boost(enable, succeeds) ==
    LET value == IF enable THEN 1 ELSE 0
    IN  [req    |-> [kind |-> "fan", arg |-> value, value |-> value, ok |-> succeeds],
         result |-> IF succeeds THEN Ok(Msg("")) ELSE Err("Failed to set fan mode")]

\* set_perf_pct without its clamp.
set_perf_pct_unclamped(pct, succeeds) ==
    [req    |-> [kind |-> "perf", arg |-> pct, value |-> pct, ok |-> succeeds],
     result |-> IF succeeds THEN Ok(Msg("")) ELSE Err("Failed to set performance")]

\* set_perf_pct (system.rs:257-276)
set_perf_pct(pct, succeeds) ==
    LET value == clamp(pct, 20, 100)
    IN  [req    |-> [kind |-> "perf", arg |-> pct, value |-> value, ok |-> succeeds],
         result |-> IF succeeds THEN Ok(Msg("")) ELSE Err("Failed to set performance")]

\* set_mode (system.rs:321-332)
set_mode(mode, succeeds) ==
    [req    |-> [kind |-> "mode", arg |-> mode, value |-> mode, ok |-> succeeds],
     result |-> IF succeeds THEN Ok(Msg("")) ELSE Err("Failed to change mode")]

(***************************************************************************)
(* apply_thermal_control (system.rs:291-318).  env gives what the outside  *)
(* world does during the call: perf, the outcome of read_perf_pct (Fail or *)
(* a u8); fan_ok and cap_ok, the outcomes of the two pkexec commands;      *)
(* overflow, what `current_perf + 10` does when it exceeds u8::MAX         *)
(* ("panic" with overflow checks, as in a debug build, "wrap" without).    *)
(* The value is [perf, reqs, result, panicked]: the performance percentage *)
(* used, the requests issued in order, the io::Result returned (None when  *)
(* the call panicked).                                                     *)
(***************************************************************************)
\* tier with >= for > in the emergency thresholds.
tier_inclusive(diff) ==
    IF diff >= 10 * MilliPerDegree THEN "critical"
    ELSE IF diff >= 5 * MilliPerDegree THEN "high"
    ELSE IF diff > 0 THEN "mild"
    ELSE IF diff < 0 - 5 * MilliPerDegree THEN "under"
    ELSE "on_target"

\* tier with <= for < in the under-target threshold.
tier_under_inclusive(diff) ==
    IF diff > 10 * MilliPerDegree THEN "critical"
    ELSE IF diff > 5 * MilliPerDegree THEN "high"
    ELSE IF diff > 0 THEN "mild"
    ELSE IF diff <= 0 - 5 * MilliPerDegree THEN "under"
    ELSE "on_target"

\* The tier of the decision table (the if / else-if chain, system.rs:295-317).
tier(diff) ==
    IF diff > 10 * MilliPerDegree THEN "critical"
    ELSE IF diff > 5 * MilliPerDegree THEN "high"
    ELSE IF diff > 0 THEN "mild"
    ELSE IF diff < 0 - 5 * MilliPerDegree THEN "under"
    ELSE "on_target"

control_done(current_perf, reqs, result) ==
    [perf |-> current_perf, reqs |-> reqs, result |-> Some(result), panicked |-> FALSE]

\* emergency_tier with the fan request propagated (set_fan_boost(true)?).
emergency_tier_fan_fatal(current_perf, pct, text, env) ==
    LET f == set_fan_boost(TRUE, env.fan_ok)
        c == set_perf_pct(pct, env.cap_ok)
    IN  IF ~f.result.ok THEN control_done(current_perf, <<f.req>>, f.result)
        ELSE control_done(current_perf, <<f.req, c.req>>,
                          IF c.result.ok THEN Ok(Msg(text)) ELSE c.result)

\* The two emergency branches (system.rs:295-304):
\*     let _ = set_fan_boost(true); set_perf_pct(pct)?; Ok(text.into())
emergency_tier(current_perf, pct, text, env) ==
    LET f == set_fan_boost(TRUE, env.fan_ok)
        c == set_perf_pct(pct, env.cap_ok)
    IN  control_done(current_perf, <<f.req, c.req>>,
                     IF c.result.ok THEN Ok(Msg(text)) ELSE c.result)

\* adjust_tier releasing the fan boost (set_fan_boost(false)) before it sets the cap.
adjust_tier_releases_fan(current_perf, new_perf, text, env) ==
    LET f == set_fan_boost(FALSE, env.fan_ok)
        c == set_perf_pct(new_perf, env.cap_ok)
    IN  control_done(current_perf, <<f.req, c.req>>,
                     IF c.result.ok THEN Ok(Msg(text)) ELSE c.result)

\* The two proportional branches (system.rs:305-314):
\*     set_perf_pct(new_perf)?; Ok(format!("... {}%", new_perf))
adjust_tier(current_perf, new_perf, text, env) ==
    LET c == set_perf_pct(new_perf, env.cap_ok)
    IN  control_done(current_perf, <<c.req>>,
                     IF c.result.ok THEN Ok(MsgPct(text, new_perf)) ELSE c.result)

apply_thermal_control(current_temp, target, env) ==
    LET current_perf == unwrap_or(env.perf, 75)
        diff == current_temp - target
        t    == tier(diff)
        sum  == current_perf + 10
    IN  CASE t = "critical" ->
               emergency_tier(current_perf, 30, "CRITICAL: Fan boost + 30%", env)
          [] t = "high" ->
               emergency_tier(current_perf, 50, "HIGH: Fan boost + 50%", env)
          [] t = "mild" ->
               adjust_tier(current_perf,
                           calc_perf_for_target(current_temp, target, current_perf),
                           "Adjusting to", env)
          [] t = "under" ->
               IF sum > U8Max /\ env.overflow = "panic"
               THEN [perf |-> current_perf, reqs |-> <<>>, result |-> None,
                     panicked |-> TRUE]
               ELSE adjust_tier(current_perf, Min(sum % (U8Max + 1), 100),
                                "Increasing to", env)
          [] OTHER -> control_done(current_perf, <<>>, Ok(Msg("On target")))

----------------------------------------------------------------------------
(***************************************************************************)
(* Sensor gateway and ThermalState::read (system.rs:161-178, 232-237,      *)
(* 348-366).  sens gives the outcome of each raw read: cpu, the value      *)
(* of read_cpu_temp (Fail or millidegrees); ambient, the parsed content of *)
(* thermal_zone0 (Fail or millidegrees); perf, read_perf_pct; fan, the     *)
(* parsed fan_mode (Fail or a u8); cur_freq and max_freq, the parsed       *)
(* scaling_cur_freq and scaling_max_freq (Fail or kHz); mode, the content  *)
(* of /tmp/cpu-mode.current (Fail or a text); profile, the content of      *)
(* platform_profile (Fail or a string).                                    *)
(* keyboard_temp is held in 1/100 millidegree, so that the attenuation     *)
(* 0.45 is applied exactly; the f32 rounding of that product is not        *)
(* represented.                                                            *)
(***************************************************************************)
DEFAULT_AMBIENT == 28000

ATTENUATION_PCT == 45

read_ambient_temp(raw) ==
    IF raw # Fail /\ raw[1] > 15 * MilliPerDegree /\ raw[1] < 50 * MilliPerDegree
    THEN raw[1] ELSE DEFAULT_AMBIENT

calculate_keyboard_temp(cpu_temp, ambient_temp) ==
    100 * ambient_temp + (cpu_temp - ambient_temp) * ATTENUATION_PCT

read_fan_mode(raw) == unwrap_or(raw, 0)

\* from_cpu_temp with <= for < in every guard.
from_cpu_temp_upper_inclusive(temp) ==
    IF temp <= 40 * MilliPerDegree THEN "Cool"
    ELSE IF temp <= 45 * MilliPerDegree THEN "Comfort"
    ELSE IF temp <= 50 * MilliPerDegree THEN "Optimal"
    ELSE IF temp <= 55 * MilliPerDegree THEN "Warm"
    ELSE IF temp <= 65 * MilliPerDegree THEN "Hot"
    ELSE "Critical"

\* ThermalZone::from_cpu_temp (system.rs:80-89): the first guard that holds.
from_cpu_temp(temp) ==
    IF temp < 40 * MilliPerDegree THEN "Cool"
    ELSE IF temp < 45 * MilliPerDegree THEN "Comfort"
    ELSE IF temp < 50 * MilliPerDegree THEN "Optimal"
    ELSE IF temp < 55 * MilliPerDegree THEN "Warm"
    ELSE IF temp < 65 * MilliPerDegree THEN "Hot"
    ELSE "Critical"

\* read_current_freq / read_max_freq (system.rs:187-198): kHz to MHz, u32 division.
read_freq(raw) == IF raw = Fail THEN Fail ELSE Val(raw[1] \div 1000)

\* read_platform_profile (system.rs:227-229)
read_platform_profile(raw) == unwrap_or(raw, "unknown")

(***************************************************************************)
(* read_mode (system.rs:201-224).  A text is a sequence of one-character   *)
(* strings; to_lowercase maps the ASCII capitals, contains is the          *)
(* substring search of str::contains.                                      *)
(***************************************************************************)
UpperCase == <<"A", "B", "C", "D", "E", "F", "G", "H", "I", "J", "K", "L", "M",
               "N", "O", "P", "Q", "R", "S", "T", "U", "V", "W", "X", "Y", "Z">>

LowerCase == <<"a", "b", "c", "d", "e", "f", "g", "h", "i", "j", "k", "l", "m",
               "n", "o", "p", "q", "r", "s", "t", "u", "v", "w", "x", "y", "z">>

lower_char(c) ==
    IF \E i \in DOMAIN UpperCase : UpperCase[i] = c
    THEN LowerCase[CHOOSE i \in DOMAIN UpperCase : UpperCase[i] = c]
    ELSE c

to_lowercase(text) == [i \in 1..Len(text) |-> lower_char(text[i])]

contains(text, pat) ==
    \E i \in 1..(Len(text) - Len(pat) + 1) : SubSeq(text, i, i + Len(pat) - 1) = pat

T_performance == <<"p", "e", "r", "f", "o", "r", "m", "a", "n", "c", "e">>

T_comfort == <<"c", "o", "m", "f", "o", "r", "t">>

T_balanced == <<"b", "a", "l", "a", "n", "c", "e", "d">>

T_quiet == <<"q", "u", "i", "e", "t">>

T_auto == <<"a", "u", "t", "o">>

T_hyphen == <<"-">>

\* read_mode with the hyphen test of the comfort arm left out.
read_mode_hyphen_ignored(content) ==
    IF content = Fail THEN "Unknown"
    ELSE LET lower == to_lowercase(content[1])
         IN  IF contains(lower, T_performance) THEN "Performance"
             ELSE IF contains(lower, T_comfort)
                  THEN IF contains(lower, T_auto) THEN "Auto" ELSE "Comfort"
             ELSE IF contains(lower, T_balanced) THEN "Balanced"
             ELSE IF contains(lower, T_quiet) THEN "Quiet"
             ELSE IF contains(lower, T_auto) THEN "Auto"
             ELSE "Unknown"

read_mode(content) ==
    IF content = Fail THEN "Unknown"
    ELSE LET lower == to_lowercase(content[1])
         IN  IF contains(lower, T_performance) THEN "Performance"
             ELSE IF contains(lower, T_comfort)
                  THEN IF contains(lower, T_auto) \/ contains(lower, T_hyphen)
                       THEN "Auto" ELSE "Comfort"
             ELSE IF contains(lower, T_balanced) THEN "Balanced"
             ELSE IF contains(lower, T_quiet) THEN "Quiet"
             ELSE IF contains(lower, T_auto) THEN "Auto"
             ELSE "Unknown"

\* ThermalState::read with the keyboard estimate taken from the default ambient.
read_keyboard_from_default(sens) ==
    LET cpu_temp     == unwrap_or(sens.cpu, 50 * MilliPerDegree)
        ambient_temp == read_ambient_temp(sens.ambient)
    IN  [cpu_temp         |-> cpu_temp,
         keyboard_temp    |-> calculate_keyboard_temp(cpu_temp, DEFAULT_AMBIENT),
         ambient_temp     |-> ambient_temp,
         perf_pct         |-> unwrap_or(sens.perf, 50),
         current_freq_mhz |-> unwrap_or(read_freq(sens.cur_freq), 1000),
         max_freq_mhz     |-> unwrap_or(read_freq(sens.max_freq), 4400),
         mode             |-> read_mode(sens.mode),
         platform_profile |-> read_platform_profile(sens.profile),
         fan_boost        |-> (read_fan_mode(sens.fan) = 1)]

read(sens) ==
    LET cpu_temp     == unwrap_or(sens.cpu, 50 * MilliPerDegree)
        ambient_temp == read_ambient_temp(sens.ambient)
    IN  [cpu_temp         |-> cpu_temp,
         keyboard_temp    |-> calculate_keyboard_temp(cpu_temp, ambient_temp),
         ambient_temp     |-> ambient_temp,
         perf_pct         |-> unwrap_or(sens.perf, 50),
         current_freq_mhz |-> unwrap_or(read_freq(sens.cur_freq), 1000),
         max_freq_mhz     |-> unwrap_or(read_freq(sens.max_freq), 4400),
         mode             |-> read_mode(sens.mode),
         platform_profile |-> read_platform_profile(sens.profile),
         fan_boost        |-> (read_fan_mode(sens.fan) = 1)]

----------------------------------------------------------------------------
(***************************************************************************)
(* ThermalApp (app.rs:83-148, 280-374, 429-457).                           *)
(***************************************************************************)
Mode_all == {"Performance", "Comfort", "Balanced", "Quiet", "Auto"}

\* Mode::label (system.rs:30-39)
label(mode) ==
    CASE mode = "Performance" -> "PERFORMANCE"
      [] mode = "Comfort" -> "COMFORT"
      [] mode = "Balanced" -> "BALANCED"
      [] mode = "Quiet" -> "QUIET"
      [] mode = "Auto" -> "AUTO"
      [] OTHER -> "UNKNOWN"

\* format!("Mode changed to {}", mode.label()) (app.rs:136)
mode_changed(mode) == [text |-> "Mode changed to", pct |-> NoPct, arg |-> label(mode)]

\* The effect of a sequence of actuation requests on a control file: the value
\* of the last successful request of that kind, if any.
RECURSIVE written(_, _, _)
written(reqs, kind, old) ==
    IF reqs = <<>> THEN old
    ELSE LET r == Head(reqs)
         IN  written(Tail(reqs), kind,
                     IF r.kind = kind /\ r.ok THEN Val(r.value) ELSE old)

\* update_state with the control call made whatever the auto-control flag.
update_state_always_controls(app, sens, env) ==
    LET st == read(sens)
        h  == push(app.history, st.cpu_temp, st.keyboard_temp)
        c  == apply_thermal_control(st.cpu_temp, app.target_temp, env)
        shown == ~c.panicked /\ c.result[1].ok /\ c.result[1].msg # Msg("On target")
    IN  [state          |-> st,
         history        |-> h,
         status_message |-> IF shown THEN Some(c.result[1].msg) ELSE app.status_message,
         control        |-> Some([current_temp |-> st.cpu_temp,
                                  target |-> app.target_temp,
                                  perf_read |-> env.perf,
                                  perf |-> c.perf, reqs |-> c.reqs,
                                  result |-> c.result, panicked |-> c.panicked]),
         reqs           |-> c.reqs,
         panicked       |-> c.panicked]

(***************************************************************************)
(* update_state (app.rs:117-129) applied to the application `app` (the     *)
(* fields it reads and writes), with the outcomes sens of the sensor reads *)
(* and env of the control call.  The value gives the new fields, the       *)
(* control call made (None when auto-control is off) and whether the       *)
(* process panicked.                                                       *)
(***************************************************************************)
update_state(app, sens, env) ==
    LET st == read(sens)
        h  == push(app.history, st.cpu_temp, st.keyboard_temp)
        c  == apply_thermal_control(st.cpu_temp, app.target_temp, env)
        shown == app.auto_control /\ ~c.panicked /\ c.result[1].ok
                 /\ c.result[1].msg # Msg("On target")
    IN  [state          |-> st,
         history        |-> h,
         status_message |-> IF shown THEN Some(c.result[1].msg) ELSE app.status_message,
         control        |-> IF app.auto_control
                            THEN Some([current_temp |-> st.cpu_temp,
                                       target |-> app.target_temp,
                                       perf_read |-> env.perf,
                                       perf |-> c.perf, reqs |-> c.reqs,
                                       result |-> c.result, panicked |-> c.panicked])
                            ELSE None,
         reqs           |-> IF app.auto_control THEN c.reqs ELSE <<>>,
         panicked       |-> app.auto_control /\ c.panicked]

(***************************************************************************)
(* Inputs of the application model.                                        *)
(***************************************************************************)
\* Outcomes of one round of sensor reads: read_cpu_temp, thermal_zone0, read_mode.
SensorReads ==
    {[cpu |-> Val(70000), ambient |-> Val(30000), mode |-> Val(T_auto),
      cur_freq |-> Val(2400000), max_freq |-> Val(3800000), profile |-> Val("balanced")],
     [cpu |-> Val(60000), ambient |-> Val(60000), mode |-> Val(T_comfort),
      cur_freq |-> Val(800999), max_freq |-> Val(3800000), profile |-> Val("balanced")],
     [cpu |-> Fail, ambient |-> Fail, mode |-> Fail,
      cur_freq |-> Fail, max_freq |-> Fail, profile |-> Fail]}

\* Outcomes of the commands and of the overflowing addition during one control
\* call; there is nothing to choose when auto-control is off (no call is made).
Outcomes ==
    IF auto_control
    THEN [fan_ok : BOOLEAN, cap_ok : BOOLEAN,
          overflow : IF unwrap_or(sys_perf, 75) + 10 > U8Max
                     THEN {"panic", "wrap"} ELSE {"wrap"}]
    ELSE {[fan_ok |-> TRUE, cap_ok |-> TRUE, overflow |-> "wrap"]}

\* The mode buttons clicked in the model.
ModeClicks == {"Comfort"}

\* What max_perf_pct holds when the application starts.
PerfFile == {Fail, Val(0), Val(250)}

\* Positions of the target slider (40..80, step 1; app.rs:285-287).
TargetTemps == {55000, 60000}

Sens(r) == [cpu |-> r.cpu, ambient |-> r.ambient, mode |-> r.mode,
            cur_freq |-> r.cur_freq, max_freq |-> r.max_freq, profile |-> r.profile,
            perf |-> sys_perf, fan |-> sys_fan]

Env(o) ==
    [perf |-> sys_perf, fan_ok |-> o.fan_ok, cap_ok |-> o.cap_ok, overflow |-> o.overflow]

App == [history |-> history, target_temp |-> target_temp,
        auto_control |-> auto_control, status_message |-> status_message]

\* ev: the handler that ran last (op), the actuation requests it issued in order
\* and the control call it made.  The handlers that neither refresh the state nor
\* issue a request leave Idle.
Event(op, reqs, control) == [op |-> op, reqs |-> reqs, control |-> control]

Idle == Event("idle", <<>>, None)

\* ThermalApp::default (app.rs:93-109), in an environment chosen freely.
AppInit ==
    /\ sys_perf \in PerfFile
    /\ sys_fan \in {Val(0), Val(1)}
    /\ \E r \in SensorReads :
         /\ state = read(Sens(r))
         /\ history = push(new(HISTORY_CAPACITY), state.cpu_temp, state.keyboard_temp)
         /\ pushed = <<[cpu |-> state.cpu_temp, kbd |-> state.keyboard_temp]>>
    /\ status_message = None
    /\ target_temp = 55 * MilliPerDegree
    /\ auto_control = FALSE
    /\ fan_boost_manual = FALSE
    /\ ev = Idle
    /\ crashed = FALSE
    /\ updates = 0

PureIdle ==
    /\ read_in = None /\ read_out = None
    /\ mode_in = None /\ mode_out = None
    /\ zone_in = None /\ zone_out = None

CallsIdle ==
    /\ calc_in = None /\ calc_out = None
    /\ ctl_in = None /\ ctl_out = None
    /\ PureIdle

\* One run of update_state inside the handler op, which has already issued
\* pre_reqs and left the status message at app.status_message.
RunUpdate(op, app, pre_reqs, r, o) ==
    \E u \in {update_state(app, Sens(r), Env(o))} :
      \E all \in {pre_reqs \o u.reqs} :
        /\ state' = u.state
        /\ history' = u.history
        /\ pushed' = Append(pushed, [cpu |-> u.state.cpu_temp,
                                     kbd |-> u.state.keyboard_temp])
        /\ status_message' = u.status_message
        /\ sys_perf' = written(all, "perf", sys_perf)
        /\ sys_fan' = written(all, "fan", sys_fan)
        /\ ev' = Event(op, all, u.control)
        /\ crashed' = u.panicked
        /\ updates' = updates + 1
        /\ UNCHANGED <<target_temp, auto_control, fan_boost_manual, callVars>>

\* ThermalApp::update (app.rs:452-457): the update interval has elapsed.
Tick ==
    /\ ~crashed
    /\ updates < MaxUpdates
    /\ \E r \in SensorReads, o \in Outcomes :
         RunUpdate("update", App, <<>>, r, o)

\* change_mode without the update_state call of its Ok arm.
ChangeModeOk_no_reread(mode) ==
    /\ ~crashed
    /\ mode # state.mode
    /\ LET m == set_mode(mode, TRUE)
       IN  /\ status_message' = Some(mode_changed(mode))
           /\ ev' = Event("change_mode", <<m.req>>, None)
    /\ UNCHANGED <<history, pushed, state, target_temp, auto_control,
                   fan_boost_manual, sys_perf, sys_fan, crashed, updates, callVars>>

\* change_mode (app.rs:132-148), from a click on the button of a mode other
\* than the current one (app.rs:270-272).
ChangeModeOk(mode) ==
    /\ ~crashed
    /\ mode # state.mode
    /\ updates < MaxUpdates
    /\ LET m == set_mode(mode, TRUE)
           app == [App EXCEPT !.status_message =
                       Some(mode_changed(mode))]
       IN  \E r \in SensorReads, o \in Outcomes :
             RunUpdate("change_mode", app, <<m.req>>, r, o)

ChangeModeErr(mode) ==
    /\ ~crashed
    /\ mode # state.mode
    /\ LET m == set_mode(mode, FALSE)
       IN  /\ status_message' = Some(MsgErr("Error:", m.result))
           /\ ev' = Event("change_mode", <<m.req>>, None)
    /\ UNCHANGED <<history, pushed, state, target_temp, auto_control,
                   fan_boost_manual, sys_perf, sys_fan, crashed, updates, callVars>>

\* The auto-control button (app.rs:300-309).
ToggleAuto ==
    /\ ~crashed
    /\ auto_control' = ~auto_control
    /\ status_message' = Some(Msg(IF auto_control' THEN "Auto thermal control ENABLED"
                                                   ELSE "Auto thermal control DISABLED"))
    /\ ev' = Idle
    /\ UNCHANGED <<history, pushed, state, target_temp, fan_boost_manual,
                   sys_perf, sys_fan, crashed, updates, callVars>>

\* The target slider (app.rs:285-289).
SetTarget(t) ==
    /\ ~crashed
    /\ t # target_temp
    /\ target_temp' = t
    /\ ev' = Idle
    /\ UNCHANGED <<history, pushed, state, status_message, auto_control,
                   fan_boost_manual, sys_perf, sys_fan, crashed, updates, callVars>>

\* The fan button (app.rs:363-374).
ToggleFan(succeeds) ==
    /\ ~crashed
    /\ fan_boost_manual' = ~fan_boost_manual
    /\ LET f == set_fan_boost(fan_boost_manual', succeeds)
       IN  /\ status_message' =
                 Some(IF ~f.result.ok THEN MsgErr("Fan error:", f.result)
                      ELSE IF fan_boost_manual' THEN Msg("Fan BOOST activated")
                      ELSE Msg("Fan returned to AUTO"))
           /\ sys_fan' = written(<<f.req>>, "fan", sys_fan)
           /\ ev' = Event("toggle_fan", <<f.req>>, None)
    /\ UNCHANGED <<history, pushed, state, target_temp, auto_control,
                   sys_perf, crashed, updates, callVars>>

\* render_status (app.rs:429-438): a message older than 3 s is cleared.
ExpireStatus ==
    /\ ~crashed
    /\ status_message # None
    /\ status_message' = None
    /\ ev' = Idle
    /\ UNCHANGED <<history, pushed, state, target_temp, auto_control,
                   fan_boost_manual, sys_perf, sys_fan, crashed, updates, callVars>>

Init == AppInit /\ CallsIdle

Next ==
    \/ Tick
    \/ \E mode \in ModeClicks : ChangeModeOk(mode)
    \/ \E mode \in ModeClicks : ChangeModeErr(mode)
    \/ ToggleAuto
    \/ \E t \in TargetTemps : SetTarget(t)
    \/ \E succeeds \in BOOLEAN : ToggleFan(succeeds)
    \/ ExpireStatus

Spec == Init /\ [][Next]_vars

----------------------------------------------------------------------------
(***************************************************************************)
(* A stand-alone TemperatureHistory: TemperatureHistory::new(capacity)     *)
(* followed by any pushes (the unit tests of app.rs:555-604).              *)
(***************************************************************************)
HistCpu == {40000, 42000}

HistKbd == {35000, 36000}

AppParked ==
    /\ state = None
    /\ status_message = None
    /\ target_temp = 0
    /\ auto_control = FALSE
    /\ fan_boost_manual = FALSE
    /\ sys_perf = Fail
    /\ sys_fan = Fail
    /\ ev = Idle
    /\ crashed = FALSE
    /\ updates = 0

HistInit ==
    /\ \E capacity \in 0..MaxCap : history = new(capacity)
    /\ pushed = <<>>
    /\ AppParked
    /\ CallsIdle

HistPush(cpu, kbd) ==
    /\ Len(pushed) < MaxPushes
    /\ history' = push(history, cpu, kbd)
    /\ pushed' = Append(pushed, [cpu |-> cpu, kbd |-> kbd])
    /\ UNCHANGED <<appVars, callVars>>

HistNext == \E cpu \in HistCpu, kbd \in HistKbd : HistPush(cpu, kbd)

SpecHist == HistInit /\ [][HistNext]_vars

----------------------------------------------------------------------------
(***************************************************************************)
(* One call of calc_perf_for_target on arguments drawn from bounded sets   *)
(* (among them the arguments of the unit tests, system.rs:500-532).        *)
(***************************************************************************)
CalcTemps == {0 - 5000, 30000, 45000, 54900, 55000, 55001, 60000, 100000}

CalcTargets == {50000, 54000, 55000, 80000}

CalcInit ==
    /\ \E c \in CalcTemps, t \in CalcTargets, p \in 0..U8Max :
         calc_in = Some([current_temp |-> c, target |-> t, current_perf |-> p])
    /\ calc_out = None
    /\ ctl_in = None /\ ctl_out = None
    /\ PureIdle
    /\ history = new(0) /\ pushed = <<>>
    /\ AppParked

CalcCall ==
    /\ calc_in # None /\ calc_out = None
    /\ calc_out' = Some(calc_perf_for_target(calc_in[1].current_temp, calc_in[1].target,
                                             calc_in[1].current_perf))
    /\ UNCHANGED <<histVars, appVars, calc_in, ctl_in, ctl_out, pureVars>>

SpecCalc == CalcInit /\ [][CalcCall]_vars

----------------------------------------------------------------------------
(***************************************************************************)
(* One call of apply_thermal_control: a current and a target temperature,  *)
(* every outcome of read_perf_pct (Err or any u8) and of the commands.     *)
(***************************************************************************)
\* <<current, target>> pairs: every tier, with its boundaries, at target 55;
\* pairs whose quotient is rounded by the f32 arithmetic; the pair 55 / 53.
CtlTemps ==
    {<<c, 55000>> : c \in {72000, 65001, 65000, 60001, 60000, 55001, 55000,
                           50000, 49999, 48000}}
    \cup {<<54900, 54000>>, <<56400, 54000>>, <<55000, 53000>>}

CtlPerfReads == {Fail} \cup {Val(p) : p \in 0..U8Max}

CtlInit ==
    /\ \E ct \in CtlTemps, p \in CtlPerfReads, fan_ok \in BOOLEAN, cap_ok \in BOOLEAN,
          overflow \in {"panic", "wrap"} :
         /\ (overflow = "panic" => unwrap_or(p, 75) + 10 > U8Max)
         /\ ctl_in = Some([current_temp |-> ct[1], target |-> ct[2],
                           env |-> [perf |-> p, fan_ok |-> fan_ok, cap_ok |-> cap_ok,
                                    overflow |-> overflow]])
    /\ ctl_out = None
    /\ calc_in = None /\ calc_out = None
    /\ PureIdle
    /\ history = new(0) /\ pushed = <<>>
    /\ AppParked

CtlCall ==
    /\ ctl_in # None /\ ctl_out = None
    /\ ctl_out' = Some(apply_thermal_control(ctl_in[1].current_temp, ctl_in[1].target,
                                             ctl_in[1].env))
    /\ UNCHANGED <<histVars, appVars, calc_in, calc_out, ctl_in, pureVars>>

SpecControl == CtlInit /\ [][CtlCall]_vars

----------------------------------------------------------------------------
(***************************************************************************)
(* One call of ThermalState::read (system.rs:348-366) for every            *)
(* combination of success and failure of the reads it makes.               *)
(***************************************************************************)
ReadInputs ==
    [cpu      : {Fail, Val(72000)},
     ambient  : {Fail, Val(15000), Val(30000), Val(60000)},
     perf     : {Fail, Val(80)},
     cur_freq : {Fail, Val(2400999)},
     max_freq : {Fail, Val(3800000)},
     mode     : {Fail, Val(T_performance)},
     profile  : {Fail, Val("balanced")},
     fan      : {Fail, Val(0), Val(1)}]

ReadInit ==
    /\ read_in \in {Some(i) : i \in ReadInputs}
    /\ read_out = None
    /\ mode_in = None /\ mode_out = None
    /\ zone_in = None /\ zone_out = None
    /\ calc_in = None /\ calc_out = None
    /\ ctl_in = None /\ ctl_out = None
    /\ history = new(0) /\ pushed = <<>>
    /\ AppParked

ReadCall ==
    /\ read_in # None /\ read_out = None
    /\ read_out' = Some(read(read_in[1]))
    /\ UNCHANGED <<histVars, appVars, calc_in, calc_out, ctl_in, ctl_out,
                   read_in, mode_in, mode_out, zone_in, zone_out>>

SpecRead == ReadInit /\ [][ReadCall]_vars

----------------------------------------------------------------------------
(***************************************************************************)
(* One call of read_mode (system.rs:201-224) on a status file that cannot  *)
(* be read or holds up to MaxTokens words.  kind names what a word spells. *)
(***************************************************************************)
Words ==
    {[kind |-> "performance", chars |-> T_performance],
     [kind |-> "comfort", chars |-> T_comfort],
     [kind |-> "comfort", chars |-> <<"C", "o", "m", "f", "o", "r", "t">>],
     [kind |-> "balanced", chars |-> T_balanced],
     [kind |-> "quiet", chars |-> <<"Q", "U", "I", "E", "T">>],
     [kind |-> "auto", chars |-> T_auto],
     [kind |-> "auto", chars |-> <<"A", "U", "T", "O">>],
     [kind |-> "hyphen", chars |-> T_hyphen],
     [kind |-> "other", chars |-> <<"O", "P", "T", "I", "M", "A", "L">>],
     [kind |-> "other", chars |-> <<" ">>]}

RECURSIVE concat(_)
concat(ws) == IF ws = <<>> THEN <<>> ELSE Head(ws).chars \o concat(Tail(ws))

ModeFiles ==
    {[words |-> <<>>, content |-> Fail]}
    \cup {[words |-> ws, content |-> Val(concat(ws))] :
            ws \in UNION {[1..n -> Words] : n \in 0..MaxTokens}}

ModeInit ==
    /\ mode_in \in {Some(f) : f \in ModeFiles}
    /\ mode_out = None
    /\ read_in = None /\ read_out = None
    /\ zone_in = None /\ zone_out = None
    /\ calc_in = None /\ calc_out = None
    /\ ctl_in = None /\ ctl_out = None
    /\ history = new(0) /\ pushed = <<>>
    /\ AppParked

ModeCall ==
    /\ mode_in # None /\ mode_out = None
    /\ mode_out' = Some(read_mode(mode_in[1].content))
    /\ UNCHANGED <<histVars, appVars, calc_in, calc_out, ctl_in, ctl_out,
                   read_in, read_out, mode_in, zone_in, zone_out>>

SpecMode == ModeInit /\ [][ModeCall]_vars

----------------------------------------------------------------------------
(***************************************************************************)
(* ThermalZone::from_cpu_temp (system.rs:80-89) called on two              *)
(* temperatures: the boundaries of the table, their neighbours, and the    *)
(* values of the unit tests (system.rs:388-408).                           *)
(***************************************************************************)
ZoneTemps ==
    {b * MilliPerDegree + d : b \in {40, 45, 50, 55, 65},
                              d \in {0 - 1000, 0 - 100, 0 - 1, 0, 1, 100}}
    \cup {0 - 5000, 0, 35000, 42000, 47000, 52000, 60000, 70000, 150000}

ZoneInit ==
    /\ zone_in \in {Some(<<a, b>>) : a \in ZoneTemps, b \in ZoneTemps}
    /\ zone_out = None
    /\ read_in = None /\ read_out = None
    /\ mode_in = None /\ mode_out = None
    /\ calc_in = None /\ calc_out = None
    /\ ctl_in = None /\ ctl_out = None
    /\ history = new(0) /\ pushed = <<>>
    /\ AppParked

ZoneCall ==
    /\ zone_in # None /\ zone_out = None
    /\ zone_out' = Some(<<from_cpu_temp(zone_in[1][1]), from_cpu_temp(zone_in[1][2])>>)
    /\ UNCHANGED <<histVars, appVars, calc_in, calc_out, ctl_in, ctl_out,
                   read_in, read_out, mode_in, mode_out, zone_in>>

SpecZone == ZoneInit /\ [][ZoneCall]_vars

----------------------------------------------------------------------------
(***************************************************************************)
(* The control loop closed over max_perf_pct: successive automatic ticks   *)
(* (app.rs:452-457, 122-128) whose control call reads the percentage the   *)
(* previous one wrote, every command succeeding, the CPU temperature of    *)
(* each tick anywhere in (target, target + 5].  The snapshot and the       *)
(* history, which the policy does not read, stay parked.  The update timer *)
(* fires again and again (request_repaint_after, app.rs:459-460), hence    *)
(* the weak fairness of the tick.                                          *)
(***************************************************************************)
LoopTarget == 55 * MilliPerDegree

LoopTemps == {55001, 56000, 58000, 60000}

\* What max_perf_pct holds before the first tick.
LoopStart == {Fail, Val(0), Val(100), Val(250)}

LoopInit ==
    /\ sys_perf \in LoopStart
    /\ sys_fan = Val(0)
    /\ target_temp = LoopTarget
    /\ auto_control = TRUE
    /\ state = None
    /\ status_message = None
    /\ fan_boost_manual = FALSE
    /\ ev = Idle
    /\ crashed = FALSE
    /\ updates = 0
    /\ history = new(0) /\ pushed = <<>>
    /\ CallsIdle

\* What a tick's control call finds: the percentage in max_perf_pct, every
\* command succeeding.
LoopEnv(perf) == [perf |-> perf, fan_ok |-> TRUE, cap_ok |-> TRUE, overflow |-> "wrap"]

\* apply_thermal_control over every temperature of the loop and every content
\* of max_perf_pct, computed once.
LoopControl ==
    [t \in LoopTemps, perf \in LoopStart \cup {Val(p) : p \in 0..U8Max} |->
        apply_thermal_control(t, LoopTarget, LoopEnv(perf))]

LoopTick ==
    \E t \in LoopTemps :
      \E c \in {LoopControl[t, sys_perf]} :
        /\ target_temp = LoopTarget
        /\ ctl_in' = Some([current_temp |-> t, target |-> target_temp,
                           env |-> LoopEnv(sys_perf)])
        /\ ctl_out' = Some(c)
        /\ sys_perf' = written(c.reqs, "perf", sys_perf)
        /\ sys_fan' = written(c.reqs, "fan", sys_fan)
        /\ UNCHANGED <<histVars, state, status_message, target_temp, auto_control,
                       fan_boost_manual, ev, crashed, updates,
                       calc_in, calc_out, pureVars>>

SpecLoop == LoopInit /\ [][LoopTick]_vars /\ WF_vars(LoopTick)

----------------------------------------------------------------------------
(***************************************************************************)
(* The fan under the control policy and the fan button: automatic ticks    *)
(* (app.rs:452-457, 117-129) with auto-control on, at temperatures of      *)
(* every tier of the decision table, each command succeeding or failing,   *)
(* interleaved with clicks on the fan button (app.rs:363-374).  fan_mode   *)
(* starts at 0 and is written by these two handlers only.                  *)
(***************************************************************************)
FanTarget == 55 * MilliPerDegree

\* One temperature per tier: critical, high, mild, on target, under.
FanTemps == {70000, 62000, 57000, 55000, 45000}

FanReads ==
    {[cpu |-> Val(t), ambient |-> Val(30000), mode |-> Val(T_auto),
      cur_freq |-> Val(2400000), max_freq |-> Val(3800000),
      profile |-> Val("balanced")] : t \in FanTemps}

FanOutcomes == [fan_ok : BOOLEAN, cap_ok : BOOLEAN, overflow : {"wrap"}]

FanInit ==
    /\ sys_perf = Val(50)
    /\ sys_fan = Val(0)
    /\ \E r \in {x \in FanReads : x.cpu = Val(FanTarget)} :
         /\ state = read(Sens(r))
         /\ history = push(new(HISTORY_CAPACITY), state.cpu_temp, state.keyboard_temp)
         /\ pushed = <<[cpu |-> state.cpu_temp, kbd |-> state.keyboard_temp]>>
    /\ status_message = None
    /\ target_temp = FanTarget
    /\ auto_control = TRUE
    /\ fan_boost_manual = FALSE
    /\ ev = Idle
    /\ crashed = FALSE
    /\ updates = 0
    /\ CallsIdle

FanTick ==
    /\ ~crashed
    /\ updates < MaxFanTicks
    /\ \E r \in FanReads, o \in FanOutcomes :
         RunUpdate("update", App, <<>>, r, o)

FanNext ==
    \/ FanTick
    \/ \E succeeds \in BOOLEAN : ToggleFan(succeeds)

SpecFan == FanInit /\ [][FanNext]_vars

----------------------------------------------------------------------------
(***************************************************************************)
(* Properties.                                                             *)
(***************************************************************************)

\* C1: for every capacity (0 and 1 included) and every sequence of pushes,
\* len() is at most the capacity; a freshly constructed buffer has len() = 0
\* and is_empty().
C1_LenWithinCapacity ==
    /\ len(history) <= history.capacity
    /\ (pushed = <<>> => len(history) = 0 /\ is_empty(history))

\* C2: after n pushes into a buffer of capacity c >= 1 the buffer holds exactly
\* the last min(n, c) pushed pairs, in push order, both channels of equal length
\* and the i-th cpu and i-th keyboard value from the same push.
C2_LastPairsInOrder ==
    history.capacity >= 1 =>
        LET n == Len(pushed)
            k == Min(n, history.capacity)
        IN  /\ Len(history.cpu_temps) = k
            /\ Len(history.kbd_temps) = k
            /\ \A i \in 1..k :
                 /\ history.cpu_temps[i] = pushed[n - k + i].cpu
                 /\ history.kbd_temps[i] = pushed[n - k + i].kbd

\* capacity 2, four pushes (c + k with k = 2), the evicted first pair distinct
\* from the pair now at the front.
C2_Witness ==
    /\ history.capacity = 2
    /\ Len(pushed) = 4
    /\ pushed[1].cpu # pushed[3].cpu
    /\ pushed[1].kbd # pushed[3].kbd

\* The call of apply_thermal_control under SpecControl.
CtlDone == ctl_in # None /\ ctl_out # None

CtlDiff == ctl_in[1].current_temp - ctl_in[1].target

CtlPerf == unwrap_or(ctl_in[1].env.perf, 75)

FanRequest(ok) == [kind |-> "fan", arg |-> 1, value |-> 1, ok |-> ok]

CapRequest(pct, ok) == [kind |-> "perf", arg |-> pct, value |-> pct, ok |-> ok]

EmergencyRequests(pct) ==
    ctl_out[1].reqs = <<FanRequest(ctl_in[1].env.fan_ok),
                        CapRequest(pct, ctl_in[1].env.cap_ok)>>

ExactProportional(current_temp, target, current_perf) ==
    clamp((current_perf * target) \div current_temp, 20, 100)

CtlMild == CtlDone /\ CtlDiff > 0 /\ CtlDiff <= 5 * MilliPerDegree

\* C4: when 0 < diff <= 5 exactly one request is issued, a
\* performance-cap request and no fan request, for the percentage read at
\* decision time (75 if the read fails); its value lies in [20, 100] and is
\* within 1 of clamp(trunc(current_perf * target / current), 20, 100), the f32
\* quotient and product being rounded.
C4_MildRequest ==
    CtlMild =>
        /\ ctl_out[1].perf = CtlPerf
        /\ Len(ctl_out[1].reqs) = 1
        /\ LET r == ctl_out[1].reqs[1]
               e == ExactProportional(ctl_in[1].current_temp, ctl_in[1].target, CtlPerf)
           IN  /\ r.kind = "perf"
               /\ r.ok = ctl_in[1].env.cap_ok
               /\ r.value = r.arg
               /\ r.arg >= 20 /\ r.arg <= 100
               /\ r.arg >= e - 1 /\ r.arg <= e + 1

\* C4 in exact arithmetic: the requested value is
\* clamp(trunc(current_perf * target / current), 20, 100).
C4_AsStated ==
    CtlMild =>
        /\ Len(ctl_out[1].reqs) = 1
        /\ ctl_out[1].reqs[1].kind = "perf"
        /\ ctl_out[1].reqs[1].value =
             ExactProportional(ctl_in[1].current_temp, ctl_in[1].target, CtlPerf)

\* The mild tier with a failed performance read: 75 * 55 / 55.001 gives 74.
C4_Witness ==
    /\ CtlMild
    /\ ctl_in[1].env.perf = Fail
    /\ ctl_out[1].reqs = <<CapRequest(74, TRUE)>>

\* C5: when diff < -5 the requested cap is min(current_perf + 10, 100) for every
\* u8 the read can return (75 when it fails); the addition never overflows,
\* never aborts the tick, and the cap is not below current_perf <= 100.
C5_IncreaseByTen ==
    (CtlDone /\ CtlDiff < 0 - 5 * MilliPerDegree) =>
        /\ ~ctl_out[1].panicked
        /\ Len(ctl_out[1].reqs) = 1
        /\ ctl_out[1].reqs[1].kind = "perf"
        /\ ctl_out[1].reqs[1].arg = Min(CtlPerf + 10, 100)
        /\ (CtlPerf <= 100 => ctl_out[1].reqs[1].arg >= CtlPerf)

OnTarget(c) ==
    /\ c.current_temp - c.target <= 0
    /\ c.current_temp - c.target >= 0 - 5 * MilliPerDegree

\* C6: a tick whose control call finds -5 <= diff <= 0 issues no actuation
\* request of any kind, the call returns Ok("On target"), and the tick leaves
\* the status message (and the control files) as they were.
C6_OnTargetIsNoOp ==
    [][(/\ updates' = updates + 1
        /\ ev'.op = "update"
        /\ ev'.control # None
        /\ OnTarget(ev'.control[1]))
       => (/\ ev'.reqs = <<>>
           /\ ev'.control[1].reqs = <<>>
           /\ ev'.control[1].result = Some(Ok(Msg("On target")))
           /\ status_message' = status_message
           /\ sys_perf' = sys_perf
           /\ sys_fan' = sys_fan)]_vars

\* An on-target tick (diff = -5 exactly) after which an earlier message is
\* still displayed.
C6_Witness ==
    /\ ev.op = "update"
    /\ ev.control # None
    /\ OnTarget(ev.control[1])
    /\ ev.control[1].current_temp - ev.control[1].target = 0 - 5 * MilliPerDegree
    /\ status_message = Some(Msg("Auto thermal control ENABLED"))

\* C7: calc_perf_for_target returns a value in [20, 100] for every input, in
\* both branches and for every current_perf in 0..255.
C7_ResultInRange ==
    calc_out # None => (calc_out[1] >= 20 /\ calc_out[1] <= 100)

\* C8: when current < target the result is strictly greater than current_perf
\* (for current_perf < 100) and at most 100; when current > target it is
\* strictly less than current_perf (for current_perf > 20) and at least 20.
C8_MovesTowardsTarget ==
    calc_out # None =>
        LET a == calc_in[1]
            r == calc_out[1]
        IN  /\ (a.current_temp < a.target /\ a.current_perf < 100) =>
                 (r > a.current_perf /\ r <= 100)
            /\ (a.current_temp > a.target /\ a.current_perf > 20) =>
                 (r < a.current_perf /\ r >= 20)

\* C9: every value a performance-cap request writes lies in [20, 100].
C9_CapWrittenInRange ==
    \A i \in DOMAIN ev.reqs :
        ev.reqs[i].kind = "perf" => (ev.reqs[i].value >= 20 /\ ev.reqs[i].value <= 100)

\* A successful cap request whose argument was below 20 (0 + 10, or 250 + 10
\* wrapped to 4) and was written as 20.
C9_Witness ==
    \E i \in DOMAIN ev.reqs :
        /\ ev.reqs[i].kind = "perf"
        /\ ev.reqs[i].arg < 20
        /\ ev.reqs[i].value = 20
        /\ ev.reqs[i].ok

\* C10: in the emergency tiers (diff > 5) the fan-boost request comes first, the
\* cap request is issued whether or not the fan request failed, and the call
\* succeeds exactly when the cap request does.
C10_FanFailureNotFatal ==
    (CtlDone /\ CtlDiff > 5 * MilliPerDegree) =>
        /\ Len(ctl_out[1].reqs) = 2
        /\ ctl_out[1].reqs[1].kind = "fan"
        /\ ctl_out[1].reqs[1].value = 1
        /\ ctl_out[1].reqs[1].ok = ctl_in[1].env.fan_ok
        /\ ctl_out[1].reqs[2].kind = "perf"
        /\ ctl_out[1].reqs[2].ok = ctl_in[1].env.cap_ok
        /\ ctl_out[1].result # None
        /\ ctl_out[1].result[1].ok = ctl_out[1].reqs[2].ok

\* An emergency call whose fan request failed and whose cap request succeeded.
C10_Witness ==
    /\ CtlDone
    /\ CtlDiff > 5 * MilliPerDegree
    /\ ~ctl_in[1].env.fan_ok
    /\ ctl_in[1].env.cap_ok
    /\ ctl_out[1].result[1].ok

\* The requests of the last handler that failed.
FailedRequests == {i \in DOMAIN ev.reqs : ~ev.reqs[i].ok}

\* The error a failed request of the given kind returns (system.rs:250, 272, 329).
FailureText(req) ==
    IF req.kind = "fan" THEN "Failed to set fan mode"
    ELSE IF req.kind = "perf" THEN "Failed to set performance"
    ELSE "Failed to change mode"

\* The status message shows the failure of the request.
Presented(req) ==
    /\ status_message # None
    /\ \/ status_message[1].text = FailureText(req)
       \/ status_message[1].arg = FailureText(req)

\* C11: a failed performance-cap request makes apply_thermal_control return a
\* failure; after any failed actuation (the cap request of an automatic tick, the
\* manual fan toggle, a mode change) the status message describes that failure;
\* the failed request is not issued again within the same tick or user action.
C11_FailuresPresented ==
    /\ ev.control # None =>
         \A i \in DOMAIN ev.control[1].reqs :
            (ev.control[1].reqs[i].kind = "perf" /\ ~ev.control[1].reqs[i].ok) =>
               (ev.control[1].result # None /\ ~ev.control[1].result[1].ok)
    /\ \A i \in FailedRequests :
         /\ (ev.reqs[i].kind \in {"perf", "mode"} \/ ev.op = "toggle_fan") =>
               Presented(ev.reqs[i])
         /\ \A j \in DOMAIN ev.reqs : ev.reqs[j].kind = ev.reqs[i].kind => j = i

\* C12: when the request of a user action fails (the manual fan toggle, a mode
\* change), the manual fan-boost flag, the state snapshot, the history buffer, the
\* target temperature and the auto-control flag are as they were before the
\* action; only the status message differs.
C12_FailedActionFrame ==
    [][(/\ ev'.op \in {"toggle_fan", "change_mode"}
        /\ ~ev'.reqs[1].ok)
       => UNCHANGED <<fan_boost_manual, state, history, target_temp, auto_control>>]_vars

\* C13: auto-control starts disabled; a state refresh that runs while the
\* auto-control flag is false makes no control call, issues no fan and no
\* performance-cap request and leaves the status message to its handler (a mode
\* change shows "Mode changed to ...", a tick leaves it as it was), whatever the
\* CPU temperature and the target are.
C13_AutoOffNeverActuates ==
    /\ auto_control = FALSE
    /\ [][(updates' = updates + 1 /\ ~auto_control)
          => (/\ ev'.control = None
              /\ \A i \in DOMAIN ev'.reqs : ev'.reqs[i].kind = "mode"
              /\ sys_perf' = sys_perf
              /\ sys_fan' = sys_fan
              /\ status_message' = IF ev'.op = "change_mode"
                                   THEN Some(mode_changed(ev'.reqs[1].arg))
                                   ELSE status_message)]_vars

\* Auto-control toggled on and off again, then a tick that reads 70 against a
\* target of 55 (the CRITICAL tier, had the policy run) and requests nothing.
C13_Witness ==
    /\ ev = Event("update", <<>>, None)
    /\ ~auto_control
    /\ status_message = Some(Msg("Auto thermal control DISABLED"))
    /\ state.cpu_temp - target_temp > 10 * MilliPerDegree

\* The control call a refresh makes is the policy applied to the snapshot just
\* read, the target and the outcomes of this call's reads and commands.
FreshDecision ==
    /\ ev'.control # None
    /\ ev'.control[1].current_temp = state'.cpu_temp
    /\ ev'.control[1].target = target_temp
    /\ \E o \in Outcomes :
         \E c \in {apply_thermal_control(state'.cpu_temp, target_temp, Env(o))} :
            /\ ev'.control[1].reqs = c.reqs
            /\ ev'.control[1].result = c.result

\* C15: no read or actuation outcome stops the loop: a tick never aborts the
\* process, and every tick reads a fresh snapshot, pushes one history entry and,
\* when auto-control is on, decides from that snapshot alone.
C15_LoopNeverStops ==
    [][/\ ~crashed'
       /\ (updates' = updates + 1 /\ ev'.op = "update") =>
            /\ \E r \in SensorReads : state' = read(Sens(r))
            /\ pushed' = Append(pushed, [cpu |-> state'.cpu_temp,
                                         kbd |-> state'.keyboard_temp])
            /\ history' = push(history, state'.cpu_temp, state'.keyboard_temp)
            /\ (auto_control => FreshDecision)]_vars

\* C16: a successful mode change runs, within the same action, a state re-read
\* that replaces the snapshot (and pushes one history entry); a failed mode
\* change performs no re-read; the control policy issues no mode request.
C16_ModeChangeRereads ==
    [][/\ (ev'.op = "change_mode"
           /\ <<updates, status_message>>' # <<updates, status_message>>) =>
            IF ev'.reqs[1].ok
            THEN /\ updates' = updates + 1
                 /\ \E r \in SensorReads : state' = read(Sens(r))
                 /\ Len(pushed') = Len(pushed) + 1
            ELSE UNCHANGED <<state, updates, history, pushed>>
       /\ ev'.control # None =>
            \A i \in DOMAIN ev'.control[1].reqs : ev'.control[1].reqs[i].kind # "mode"]_vars

\* A successful mode change as first action, after which the snapshot holds a
\* reading other than the one taken at start-up.
C16_Witness ==
    /\ ev.op = "change_mode"
    /\ ev.reqs[1].ok
    /\ Len(pushed) = 2
    /\ pushed[1].cpu # pushed[2].cpu
    /\ state.cpu_temp = pushed[2].cpu

ReadDone == read_in # None /\ read_out # None

\* What a read that succeeded gives, and the fallback of one that failed.
ReadOr(raw, dflt) == IF raw = Fail THEN dflt ELSE raw[1]

\* The fields of the snapshot other than the ambient temperature and the
\* keyboard estimate.
OtherFieldsAsRead ==
    LET i == read_in[1]
        o == read_out[1]
    IN  /\ o.cpu_temp = ReadOr(i.cpu, 50 * MilliPerDegree)
        /\ o.perf_pct = ReadOr(i.perf, 50)
        /\ o.current_freq_mhz = (IF i.cur_freq = Fail THEN 1000 ELSE i.cur_freq[1] \div 1000)
        /\ o.max_freq_mhz = (IF i.max_freq = Fail THEN 4400 ELSE i.max_freq[1] \div 1000)
        /\ o.mode = (IF i.mode = Fail THEN "Unknown" ELSE "Performance")
        /\ o.platform_profile = ReadOr(i.profile, "unknown")
        /\ o.fan_boost = (i.fan = Val(1))

\* C14: ThermalState::read returns a complete snapshot for every combination
\* of read successes and failures; each failed quantity takes its fallback and
\* each quantity read takes its read value, independently of the others, except
\* that an ambient reading outside (15, 50) is replaced by the fallback 28.0;
\* the keyboard estimate is computed from the snapshot's CPU and ambient values.
C14_SnapshotFallbacks ==
    ReadDone =>
        LET i == read_in[1]
            o == read_out[1]
        IN  /\ OtherFieldsAsRead
            /\ o.ambient_temp =
                 (IF i.ambient # Fail /\ i.ambient[1] > 15 * MilliPerDegree
                                      /\ i.ambient[1] < 50 * MilliPerDegree
                  THEN i.ambient[1] ELSE 28 * MilliPerDegree)
            /\ o.keyboard_temp = 100 * o.ambient_temp
                                 + 45 * (o.cpu_temp - o.ambient_temp)

\* C14 with every ambient reading kept: each quantity read takes its read value.
C14_EveryReadingKept ==
    ReadDone =>
        /\ OtherFieldsAsRead
        /\ read_out[1].ambient_temp = ReadOr(read_in[1].ambient, 28 * MilliPerDegree)

\* A snapshot with the CPU read failed, everything else read, and an ambient
\* reading in range: 50.0 with the ambient and the estimate 30 + 0.45 * 20.
C14_Witness ==
    /\ ReadDone
    /\ read_in[1].cpu = Fail
    /\ read_in[1].ambient = Val(30000)
    /\ read_in[1].perf # Fail /\ read_in[1].fan = Val(1) /\ read_in[1].mode # Fail
    /\ read_in[1].cur_freq # Fail /\ read_in[1].max_freq # Fail
    /\ read_in[1].profile # Fail
    /\ read_out[1].cpu_temp = 50000
    /\ read_out[1].keyboard_temp = 3900000

ModeDone == mode_in # None /\ mode_out # None

\* The status text holds a word spelling the given name (in any case).
Spells(name) ==
    \E k \in DOMAIN mode_in[1].words : mode_in[1].words[k].kind = name

\* C17: read_mode gives Auto whenever the text contains "comfort" and also
\* "auto" or a hyphen, provided it does not contain "performance" (which is
\* tested first and gives Performance); Comfort only when the text contains
\* "comfort" without "auto" and without a hyphen; Unknown when the file cannot
\* be read or the text matches none of the five names; case is ignored.
C17_ReadModeHeuristic ==
    ModeDone =>
        LET m == mode_out[1]
        IN  /\ mode_in[1].content = Fail => m = "Unknown"
            /\ mode_in[1].content # Fail =>
                 /\ Spells("performance") => m = "Performance"
                 /\ (Spells("comfort") /\ (Spells("auto") \/ Spells("hyphen"))
                       /\ ~Spells("performance")) => m = "Auto"
                 /\ m = "Comfort" =>
                      (Spells("comfort") /\ ~Spells("auto") /\ ~Spells("hyphen"))
                 /\ (\A n \in {"performance", "comfort", "balanced", "quiet", "auto"} :
                       ~Spells(n)) => m = "Unknown"

\* C17 whatever else the text contains: "comfort" with "auto" or a hyphen
\* always gives Auto.
C17_ComfortSuffixAlwaysAuto ==
    ModeDone =>
        LET m == mode_out[1]
        IN  /\ mode_in[1].content = Fail => m = "Unknown"
            /\ mode_in[1].content # Fail =>
                 /\ (Spells("comfort") /\ (Spells("auto") \/ Spells("hyphen")))
                       => m = "Auto"
                 /\ m = "Comfort" =>
                      (Spells("comfort") /\ ~Spells("auto") /\ ~Spells("hyphen"))
                 /\ (\A n \in {"performance", "comfort", "balanced", "quiet", "auto"} :
                       ~Spells(n)) => m = "Unknown"

\* The vendor string "Comfort-OPTIMAL" read as Auto.
C17_Witness ==
    /\ ModeDone
    /\ Len(mode_in[1].words) = 3
    /\ mode_in[1].words[1].chars = <<"C", "o", "m", "f", "o", "r", "t">>
    /\ mode_in[1].words[2].kind = "hyphen"
    /\ mode_in[1].words[3].kind = "other"
    /\ mode_out[1] = "Auto"

ZoneDone == zone_in # None /\ zone_out # None

\* The order of the zones, Cool lowest.
ZoneOrder == <<"Cool", "Comfort", "Optimal", "Warm", "Hot", "Critical">>

ZoneRank(z) == CHOOSE k \in DOMAIN ZoneOrder : ZoneOrder[k] = z

\* The zone table: lower bound inclusive, upper bound exclusive.
InTable(t, z) ==
    /\ z \in {ZoneOrder[k] : k \in DOMAIN ZoneOrder}
    /\ z = "Cool" <=> t < 40000
    /\ z = "Comfort" <=> (40000 <= t /\ t < 45000)
    /\ z = "Optimal" <=> (45000 <= t /\ t < 50000)
    /\ z = "Warm" <=> (50000 <= t /\ t < 55000)
    /\ z = "Hot" <=> (55000 <= t /\ t < 65000)
    /\ z = "Critical" <=> t >= 65000

TierValue(diff) ==
    IF diff > 10 * MilliPerDegree THEN 30
    ELSE IF diff > 5 * MilliPerDegree THEN 50
    ELSE 20

CtlOverTarget == CtlDone /\ CtlDiff > 0 /\ CtlPerf <= 100

\* C19: whenever diff > 0 and the current percentage is in 0..100, the cap
\* requested is at most the larger of the current percentage and the tier's
\* value (30 for diff > 10, 50 for 5 < diff <= 10, 20 for 0 < diff <= 5): the
\* cap is lowered or kept when the current percentage is at least that value,
\* and is that value otherwise.
C19_OverTargetCapBound ==
    CtlOverTarget =>
        \A i \in DOMAIN ctl_out[1].reqs :
           ctl_out[1].reqs[i].kind = "perf" =>
              /\ ctl_out[1].reqs[i].arg <= Max(CtlPerf, TierValue(CtlDiff))
              /\ CtlPerf < TierValue(CtlDiff) =>
                   ctl_out[1].reqs[i].arg = TierValue(CtlDiff)

\* C19 for every current percentage in 0..100: the cap requested is never
\* higher than the current percentage.
C19_NeverRaised ==
    CtlOverTarget =>
        \A i \in DOMAIN ctl_out[1].reqs :
           ctl_out[1].reqs[i].kind = "perf" => ctl_out[1].reqs[i].arg <= CtlPerf

\* 60 against a target of 55 with the cap at 80: a lower cap is requested.
C19_Witness ==
    /\ CtlOverTarget
    /\ ctl_in[1].current_temp = 60000 /\ ctl_in[1].target = 55000
    /\ ctl_in[1].env.perf = Val(80)
    /\ ctl_in[1].env.cap_ok
    /\ ctl_out[1].reqs[1].kind = "perf"
    /\ ctl_out[1].reqs[1].arg < 80

\* The cap the control call of a tick requested.
RequestedCap(out) == out[1].reqs[1].arg

\* C20: with auto-control on, every actuation succeeding, each tick reading the
\* cap the previous tick wrote and diff in (0, 5] on every tick, the requested
\* cap strictly decreases from one tick to the next while it is above 20, stays
\* at 20 once it is 20, and eventually is 20 for ever.
C20_ConvergesToFloor ==
    /\ [][(ctl_out # None /\ ctl_out' # None) =>
            /\ RequestedCap(ctl_out) > 20 => RequestedCap(ctl_out') < RequestedCap(ctl_out)
            /\ RequestedCap(ctl_out) = 20 => RequestedCap(ctl_out') = 20]_vars
    /\ <>[](ctl_out # None /\ RequestedCap(ctl_out) = 20 /\ sys_perf = Val(20))

\* A tick that read 21, the cap written by the tick before it, and requested 20.
C20_Witness ==
    /\ ctl_out # None
    /\ ctl_in[1].env.perf = Val(21)
    /\ ctl_in[1].current_temp - ctl_in[1].target > 0
    /\ ctl_in[1].current_temp - ctl_in[1].target <= 5 * MilliPerDegree
    /\ RequestedCap(ctl_out) = 20
    /\ sys_perf = Val(20)

\* The requests on fan_mode issued by the control call of the last handler.
ControlFanRequests ==
    IF ev.control = None THEN {}
    ELSE {i \in DOMAIN ev.control[1].reqs : ev.control[1].reqs[i].kind = "fan"}

\* C21: every fan request of the control policy, in whatever tier, asks for
\* mode 1 (boost on), and fan_mode, once 1, is left at 1 by every automatic
\* tick: it stops being 1 only in a click on the fan button that requests
\* boost off.
C21_PolicyOnlyBoosts ==
    /\ [](\A i \in ControlFanRequests : ev.control[1].reqs[i].arg = 1)
    /\ [][(sys_fan = Val(1) /\ sys_fan' # Val(1)) =>
            /\ ev'.op = "toggle_fan"
            /\ ev'.reqs[1].kind = "fan"
            /\ ev'.reqs[1].arg = 0]_vars

\* Two ticks since construction, the fan button idle: the first in an emergency
\* tier, whose message is still shown, the second on target with no request
\* at all, and fan_mode still 1.
C21_Witness ==
    /\ updates = 2
    /\ Len(pushed) = 3
    /\ tier(pushed[2].cpu - target_temp) \in {"critical", "high"}
    /\ status_message \in {Some(Msg("CRITICAL: Fan boost + 30%")),
                            Some(Msg("HIGH: Fan boost + 50%"))}
    /\ ev.op = "update"
    /\ ev.control # None
    /\ tier(ev.control[1].current_temp - ev.control[1].target) = "on_target"
    /\ ev.reqs = <<>>
    /\ fan_boost_manual = FALSE
    /\ sys_fan = Val(1)

=============================================================================
